---- MODULE Spec2Model ----
(***************************************************************************)
(* Model of src/app.py: the check-number normalizer                        *)
(* (normalize_check_number) and the reconciliation run of the main window  *)
(* (CheckVendorUpdater.process_updates).                                   *)
(*                                                                         *)
(* Text is a sequence of one-character strings, so that trimming, suffix   *)
(* removal and pattern matching are computed character by character.  A    *)
(* missing cell (pandas NaN / None) is the one-element sequence NaN, whose  *)
(* element is not a character, so it differs from every text.              *)
(***************************************************************************)
EXTENDS Integers, Sequences, FiniteSets, TLC

VARIABLES
    quickbooks_df,       \* self.quickbooks_df: None or a table
    reference_df,        \* self.reference_df: None or a table
    updated_df,          \* self.updated_df: None or a table
    unmatched_df,        \* self.unmatched_df: None or a table
    duplicates,          \* self.duplicates: key -> count
    qb_check_combo,      \* current text of the four mapping combos
    qb_vendor_combo,
    ref_check_combo,
    ref_vendor_combo,
    normalize_checkbox,  \* the two matching options
    extract_checkbox,
    save_btn,            \* save_btn.isEnabled()
    status,              \* text key shown by _set_status
    lookup_series,       \* local of process_updates: the lookup index of the last run
    summary,             \* the counters the last run wrote to the summary box
    value,               \* argument of a direct call of normalize_check_number
    result,              \* its return value
    pc,                  \* position of the direct call: "call" or "done"
    unmatched_checkbox,  \* the two saving options
    backup_checkbox,
    quickbooks_path,     \* text of the read-only line edit: the loaded target file
    reference_files,     \* self.reference_files: the loaded reference files
    language,            \* self.language
    files                \* the folder on disk: path -> file content

vars == <<quickbooks_df, reference_df, updated_df, unmatched_df, duplicates,
          qb_check_combo, qb_vendor_combo, ref_check_combo, ref_vendor_combo,
          normalize_checkbox, extract_checkbox, save_btn, status,
          lookup_series, summary, value, result, pc,
          unmatched_checkbox, backup_checkbox, quickbooks_path, reference_files,
          language, files>>

(***************************************************************************)
(* Bounds                                                                  *)
(***************************************************************************)
MaxLen == 4

MaxRefRows == 2

MaxQbRows == 2

(***************************************************************************)
(* Text                                                                    *)
(***************************************************************************)
NaN == <<"<NaN>">>

EmptyText == <<>>

Spaces == {" ", "\t"}

Digits == {"0", "1", "2", "3", "4", "5", "6", "7", "8", "9"}

Separators == {"-", ":", "#"}

UpperCase == <<"A", "B", "C", "D", "E", "F", "G", "H", "I", "J", "K", "L", "M",
               "N", "O", "P", "Q", "R", "S", "T", "U", "V", "W", "X", "Y", "Z">>

LowerCase == <<"a", "b", "c", "d", "e", "f", "g", "h", "i", "j", "k", "l", "m",
               "n", "o", "p", "q", "r", "s", "t", "u", "v", "w", "x", "y", "z">>

\* re.IGNORECASE compares characters by their case-folded form.
Lower(c) ==
    IF \E i \in 1..26 : UpperCase[i] = c
    THEN LowerCase[CHOOSE i \in 1..26 : UpperCase[i] = c]
    ELSE c

MinOf(S) == CHOOSE x \in S : \A y \in S : x <= y

MaxOf(S) == CHOOSE x \in S : \A y \in S : x >= y

\* str.strip(): drop the leading and the trailing whitespace.
Strip(s) ==
    LET keep == {j \in 1..Len(s) : s[j] \notin Spaces}
    IN  IF keep = {} THEN EmptyText ELSE SubSeq(s, MinOf(keep), MaxOf(keep))

\* str.endswith(suffix)
EndsWith(s, suffix) ==
    /\ Len(s) >= Len(suffix)
    /\ SubSeq(s, Len(s) - Len(suffix) + 1, Len(s)) = suffix

\* The position after the longest run of characters of class, starting at i.
SkipChars(s, i, class) ==
    LET stops == {j \in i..Len(s) : s[j] \notin class}
    IN  IF stops = {} THEN Len(s) + 1 ELSE MinOf(stops)

\* word (lower case) occurs in s at position i, ignoring case.
MatchesWordAt(s, i, word) ==
    /\ i + Len(word) - 1 <= Len(s)
    /\ \A k \in 1..Len(word) : Lower(s[i + k - 1]) = word[k]

CHECK_TEXT_PREFIXES == << <<"c", "h", "e", "c", "k">>,
                          <<"c", "h", "e", "q", "u", "e">>,
                          <<"c", "h", "k">> >>

\* PrefixMatch for a pattern that captures (\d) and stops there: the first
\* digit after the prefix, whatever follows it.
PrefixMatch_first_digit(cleaned) ==
    LET p0 == SkipChars(cleaned, 1, Spaces)
        ws == {n \in 1..Len(CHECK_TEXT_PREFIXES) :
                  MatchesWordAt(cleaned, p0, CHECK_TEXT_PREFIXES[n])}
    IN  IF ws = {} THEN NaN
        ELSE LET p1 == p0 + Len(CHECK_TEXT_PREFIXES[MinOf(ws)])
                 p2 == SkipChars(cleaned, p1, Spaces)
                 p3 == SkipChars(cleaned, p2, Separators)
                 p4 == SkipChars(cleaned, p3, Spaces)
                 p5 == SkipChars(cleaned, p4, Digits)
             IN  IF p5 > p4 THEN SubSeq(cleaned, p4, p4) ELSE NaN

\* re.match(r"^\s*(?:check|cheque|chk)\s*[-:#]*\s*(\d+)\s*$", cleaned, re.IGNORECASE):
\* the captured digits, or NaN when the pattern does not match.  The character
\* classes of consecutive parts are disjoint, so the greedy scan is the match.
PrefixMatch(cleaned) ==
    LET p0 == SkipChars(cleaned, 1, Spaces)
        ws == {n \in 1..Len(CHECK_TEXT_PREFIXES) :
                  MatchesWordAt(cleaned, p0, CHECK_TEXT_PREFIXES[n])}
    IN  IF ws = {} THEN NaN
        ELSE LET p1 == p0 + Len(CHECK_TEXT_PREFIXES[MinOf(ws)])
                 p2 == SkipChars(cleaned, p1, Spaces)
                 p3 == SkipChars(cleaned, p2, Separators)
                 p4 == SkipChars(cleaned, p3, Spaces)
                 p5 == SkipChars(cleaned, p4, Digits)
                 p6 == SkipChars(cleaned, p5, Spaces)
             IN  IF p5 > p4 /\ p6 = Len(cleaned) + 1
                 THEN SubSeq(cleaned, p4, p5 - 1)
                 ELSE NaN

\* re.search(r"(\d+)", cleaned): the first maximal digit run, or NaN.
NumberMatch(cleaned) ==
    LET ds == {j \in 1..Len(cleaned) : cleaned[j] \in Digits}
    IN  IF ds = {} THEN NaN
        ELSE SubSeq(cleaned, MinOf(ds), SkipChars(cleaned, MinOf(ds), Digits) - 1)

\* Cleaned with rstrip(".0"), which removes every trailing "." and "0".
Cleaned_rstrip(text) ==
    LET cleaned == Strip(text)
        keep == {i \in 1..Len(cleaned) : cleaned[i] \notin {".", "0"}}
    IN  IF keep = {} THEN EmptyText ELSE Strip(SubSeq(cleaned, 1, MaxOf(keep)))

\* Cleaned without the second strip.
Cleaned_no_restrip(text) ==
    LET cleaned == Strip(text)
    IN  IF EndsWith(cleaned, <<".", "0">>)
        THEN SubSeq(cleaned, 1, Len(cleaned) - 2)
        ELSE cleaned

\* The cleaned text of normalize mode: strip, drop one trailing ".0", strip.
Cleaned(text) ==
    LET cleaned == Strip(text)
    IN  IF EndsWith(cleaned, <<".", "0">>)
        THEN Strip(SubSeq(cleaned, 1, Len(cleaned) - 2))
        ELSE cleaned

\* normalize_check_number with the exact-match return taken only when
\* extraction is off as well.
normalize_check_number_exact_extracts(v, normalize_mode, extract_from_text_mode) ==
    IF v = NaN THEN EmptyText
    ELSE LET text == Strip(v)
         IN  IF text = EmptyText THEN EmptyText
             ELSE IF ~normalize_mode /\ ~extract_from_text_mode THEN text
             ELSE LET cleaned == Cleaned(text)
                      pref_match == PrefixMatch(cleaned)
                      number_match == NumberMatch(cleaned)
                  IN  IF extract_from_text_mode
                      THEN IF pref_match # NaN THEN pref_match
                           ELSE IF number_match # NaN THEN number_match
                           ELSE cleaned
                      ELSE cleaned

normalize_check_number(v, normalize_mode, extract_from_text_mode) ==
    IF v = NaN THEN EmptyText
    ELSE LET text == Strip(v)
         IN  IF text = EmptyText THEN EmptyText
             ELSE IF ~normalize_mode THEN text
             ELSE LET cleaned == Cleaned(text)
                      pref_match == PrefixMatch(cleaned)
                      number_match == NumberMatch(cleaned)
                  IN  IF extract_from_text_mode
                      THEN IF pref_match # NaN THEN pref_match
                           ELSE IF number_match # NaN THEN number_match
                           ELSE cleaned
                      ELSE cleaned

(***************************************************************************)
(* Tables                                                                  *)
(*   a table is [columns |-> sequence of names, rows |-> sequence of rows],*)
(*   a row is a sequence of cells, one per column; a cell is a text or NaN *)
(***************************************************************************)
None == [columns |-> <<NaN>>, rows |-> <<>>]

HasColumn(df, name) == \E c \in 1..Len(df.columns) : df.columns[c] = name

\* df[name]: the position of the column called name
ColumnPos(df, name) == MinOf({c \in 1..Len(df.columns) : df.columns[c] = name})

\* The elements of a finite set of integers, ascending.
Ascending(S) ==
    <<>> \o [n \in 1..Cardinality(S) |->
                CHOOSE x \in S : Cardinality({y \in S : y < x}) = n - 1]

\* A column computed row by row, as the sequence of its values.
Series(f) == <<>> \o f

\* .fillna("").astype(str) of a cell
FillNaStr(cell) == IF cell = NaN THEN EmptyText ELSE cell

\* CheckKeyColumn passing False for extract_from_text_mode.
CheckKeyColumn_no_extract(df, col, normalize_mode, extract_from_text_mode) ==
    Series([i \in 1..Len(df.rows) |->
        normalize_check_number(df.rows[i][col], normalize_mode, FALSE)])

\* df[col].apply(lambda v: normalize_check_number(v, normalize_mode, extract_from_text_mode))
CheckKeyColumn(df, col, normalize_mode, extract_from_text_mode) ==
    Series([i \in 1..Len(df.rows) |->
        normalize_check_number(df.rows[i][col], normalize_mode, extract_from_text_mode)])

\* ref_df[ref_vendor].fillna("").astype(str).str.strip()
VendorValueColumn(df, col) ==
    Series([i \in 1..Len(df.rows) |-> Strip(FillNaStr(df.rows[i][col]))])

\* ExistingVendorColumn with a trailing .str.strip().
ExistingVendorColumn_stripped(df, col) ==
    Series([i \in 1..Len(df.rows) |-> Strip(FillNaStr(df.rows[i][col]))])

\* qb_df[qb_vendor].fillna("").astype(str)
ExistingVendorColumn(df, col) ==
    Series([i \in 1..Len(df.rows) |-> FillNaStr(df.rows[i][col])])

\* ref_df[ref_df["_check_key"] != ""]["_check_key"].value_counts()
ValueCounts(keys) ==
    LET present == {keys[i] : i \in {j \in 1..Len(keys) : keys[j] # EmptyText}}
    IN  [k \in present |-> Cardinality({i \in 1..Len(keys) : keys[i] = k})]

\* DuplicatesOf counting only the rows after the first.
DuplicatesOf_extras(keys) ==
    LET counts == ValueCounts(keys)
    IN  [k \in {x \in DOMAIN counts : counts[x] > 1} |-> counts[k] - 1]

\* {k: int(v) for k, v in duplicate_counts[duplicate_counts > 1].to_dict().items()}
DuplicatesOf(keys) ==
    LET counts == ValueCounts(keys)
    IN  [k \in {x \in DOMAIN counts : counts[x] > 1} |-> counts[k]]

\* KeptRow with keep="last".
KeptRow_last(keys, k) == MaxOf({i \in 1..Len(keys) : keys[i] = k})

\* drop_duplicates(subset=["_check_key"], keep="first"): of the rows bearing
\* key k, the one that is kept.
KeptRow(keys, k) == MinOf({i \in 1..Len(keys) : keys[i] = k})

\* LookupSeries without the filter on the empty key.
LookupSeries_keeps_blank(keys, vendor_values) ==
    [k \in {keys[i] : i \in 1..Len(keys)} |-> vendor_values[KeptRow(keys, k)]]

\* ref_df[ref_df["_check_key"] != ""].drop_duplicates(subset=["_check_key"],
\*     keep="first").set_index("_check_key")["_vendor_value"]
LookupSeries(keys, vendor_values) ==
    LET present == {keys[i] : i \in {j \in 1..Len(keys) : keys[j] # EmptyText}}
    IN  [k \in present |-> vendor_values[KeptRow(keys, k)]]

\* qb_df["_check_key"].map(lookup_series): NaN where the key is not in the index
MatchedVendorColumn(keys, lookup) ==
    Series([i \in 1..Len(keys) |->
        IF keys[i] \in DOMAIN lookup THEN lookup[keys[i]] ELSE NaN])

\* IsMatchColumn testing the looked-up value for truth instead of notna().
IsMatchColumn_truthy(matched_vendor) ==
    Series([i \in 1..Len(matched_vendor) |->
        matched_vendor[i] # NaN /\ matched_vendor[i] # EmptyText])

\* qb_df["_matched_vendor"].notna()
IsMatchColumn(matched_vendor) ==
    Series([i \in 1..Len(matched_vendor) |-> matched_vendor[i] # NaN])

\* AssignMatched without the row mask: qb_df[qb_vendor] = qb_df["_matched_vendor"].
AssignMatched_all_rows(df, col, is_match, matched_vendor) ==
    [df EXCEPT !.rows =
        Series([i \in 1..Len(df.rows) |-> [df.rows[i] EXCEPT ![col] = matched_vendor[i]]])]

\* qb_df.loc[qb_df["_is_match"], qb_vendor] = qb_df.loc[qb_df["_is_match"], "_matched_vendor"]
AssignMatched(df, col, is_match, matched_vendor) ==
    [df EXCEPT !.rows =
        Series([i \in 1..Len(df.rows) |->
            IF is_match[i] THEN [df.rows[i] EXCEPT ![col] = matched_vendor[i]]
            ELSE df.rows[i]])]

\* ReplacedRows without the "_is_match &" guard, comparing with "_matched_vendor".
ReplacedRows_unguarded(df, col, is_match, existing_vendor) ==
    Cardinality({i \in 1..Len(df.rows) :
                    existing_vendor[i] # (IF is_match[i] THEN FillNaStr(df.rows[i][col]) ELSE NaN)})

\* int((qb_df["_is_match"] & (qb_df["_existing_vendor"] != qb_df[qb_vendor].astype(str))).sum())
ReplacedRows(df, col, is_match, existing_vendor) ==
    Cardinality({i \in 1..Len(df.rows) :
                    is_match[i] /\ existing_vendor[i] # FillNaStr(df.rows[i][col])})

\* UnmatchedOf selecting with the mask instead of its negation.
UnmatchedOf_matched_rows(df, check_col, vendor_col, is_match) ==
    LET idx == Ascending({i \in 1..Len(df.rows) : is_match[i]})
    IN  [columns |-> <<df.columns[check_col], df.columns[vendor_col]>>,
         rows    |-> Series([n \in 1..Len(idx) |->
                         <<df.rows[idx[n]][check_col], df.rows[idx[n]][vendor_col]>>])]

\* qb_df.loc[~qb_df["_is_match"], [qb_check, qb_vendor]].copy()
UnmatchedOf(df, check_col, vendor_col, is_match) ==
    LET idx == Ascending({i \in 1..Len(df.rows) : ~is_match[i]})
    IN  [columns |-> <<df.columns[check_col], df.columns[vendor_col]>>,
         rows    |-> Series([n \in 1..Len(idx) |->
                         <<df.rows[idx[n]][check_col], df.rows[idx[n]][vendor_col]>>])]

(***************************************************************************)
(* CheckVendorUpdater.process_updates                                      *)
(***************************************************************************)
\* _error(message): the message is appended to the summary box and the status
\* shows the error title.
ShowError(message) ==
    /\ summary' = [summary EXCEPT !.message = message]
    /\ status' = "error_title"

\* _required_mapping raises missing_files: a table is not loaded.
ProcessMissingFiles ==
    /\ quickbooks_df = None \/ reference_df = None
    /\ ShowError("missing_files")
    /\ UNCHANGED <<unmatched_checkbox, backup_checkbox, quickbooks_path,
                   reference_files, language, files,
                   quickbooks_df, reference_df, updated_df, unmatched_df, duplicates,
                   qb_check_combo, qb_vendor_combo, ref_check_combo, ref_vendor_combo,
                   normalize_checkbox, extract_checkbox, save_btn, lookup_series,
                   value, result, pc>>

\* _required_mapping raises missing_mapping: a combo's stripped text is empty.
ProcessMissingMapping ==
    /\ quickbooks_df # None /\ reference_df # None
    /\ \E combo \in {qb_check_combo, qb_vendor_combo, ref_check_combo, ref_vendor_combo} :
          Strip(combo) = EmptyText
    /\ ShowError("missing_mapping")
    /\ UNCHANGED <<unmatched_checkbox, backup_checkbox, quickbooks_path,
                   reference_files, language, files,
                   quickbooks_df, reference_df, updated_df, unmatched_df, duplicates,
                   qb_check_combo, qb_vendor_combo, ref_check_combo, ref_vendor_combo,
                   normalize_checkbox, extract_checkbox, save_btn, lookup_series,
                   value, result, pc>>

MappingComplete ==
    /\ quickbooks_df # None /\ reference_df # None
    /\ \A combo \in {qb_check_combo, qb_vendor_combo, ref_check_combo, ref_vendor_combo} :
          Strip(combo) # EmptyText

RefColumnsFound ==
    /\ HasColumn(reference_df, Strip(ref_check_combo))
    /\ HasColumn(reference_df, Strip(ref_vendor_combo))

\* QbColumnsFound for a run that also fails on a target without rows.
QbColumnsFound_with_rows ==
    /\ HasColumn(quickbooks_df, Strip(qb_check_combo))
    /\ HasColumn(quickbooks_df, Strip(qb_vendor_combo))
    /\ quickbooks_df.rows # <<>>

QbColumnsFound ==
    /\ HasColumn(quickbooks_df, Strip(qb_check_combo))
    /\ HasColumn(quickbooks_df, Strip(qb_vendor_combo))

\* The "_check_key" column of the reference copy (line 699).
RefKeys ==
    CheckKeyColumn(reference_df, ColumnPos(reference_df, Strip(ref_check_combo)),
                   normalize_checkbox, extract_checkbox)

\* The lookup_series of the run (lines 700, 705).
RunLookup(ref_keys) ==
    LookupSeries(ref_keys,
                 VendorValueColumn(reference_df, ColumnPos(reference_df, Strip(ref_vendor_combo))))

\* ref_df[ref_check] or ref_df[ref_vendor] raises KeyError (lines 699-700):
\* nothing has been assigned yet.
ProcessRefKeyError ==
    /\ MappingComplete
    /\ ~RefColumnsFound
    /\ ShowError("key_error")
    /\ UNCHANGED <<unmatched_checkbox, backup_checkbox, quickbooks_path,
                   reference_files, language, files,
                   quickbooks_df, reference_df, updated_df, unmatched_df, duplicates,
                   qb_check_combo, qb_vendor_combo, ref_check_combo, ref_vendor_combo,
                   normalize_checkbox, extract_checkbox, save_btn, lookup_series,
                   value, result, pc>>

\* qb_df[qb_check] or qb_df[qb_vendor] raises KeyError (lines 707-708):
\* self.duplicates was assigned at line 703.
ProcessQbKeyError ==
    /\ MappingComplete
    /\ RefColumnsFound
    /\ ~QbColumnsFound
    /\ \E ref_keys \in {RefKeys} :
          /\ duplicates' = DuplicatesOf(ref_keys)
          /\ lookup_series' = RunLookup(ref_keys)
    /\ ShowError("key_error")
    /\ UNCHANGED <<unmatched_checkbox, backup_checkbox, quickbooks_path,
                   reference_files, language, files,
                   quickbooks_df, reference_df, updated_df, unmatched_df,
                   qb_check_combo, qb_vendor_combo, ref_check_combo, ref_vendor_combo,
                   normalize_checkbox, extract_checkbox, save_btn,
                   value, result, pc>>

\* TargetAfterRun for qb_df = self.quickbooks_df: the run writes into the
\* loaded table.
TargetAfterRun_in_place(loaded, working) == working

\* qb_df = self.quickbooks_df.copy() (line 694): the run works on a copy and
\* the loaded table is kept.
TargetAfterRun(loaded, working) == loaded

\* The run completes (lines 699-736).  Each local of the method is bound once,
\* in the order the method assigns it.
ProcessOk ==
    /\ MappingComplete
    /\ RefColumnsFound
    /\ QbColumnsFound
    /\ \E ref_keys  \in {RefKeys} :
       \E lookup    \in {RunLookup(ref_keys)} :
       \E qb_check  \in {ColumnPos(quickbooks_df, Strip(qb_check_combo))} :
       \E qb_vendor \in {ColumnPos(quickbooks_df, Strip(qb_vendor_combo))} :
       \E qb_keys   \in {CheckKeyColumn(quickbooks_df, qb_check,
                                        normalize_checkbox, extract_checkbox)} :
       \E existing  \in {ExistingVendorColumn(quickbooks_df, qb_vendor)} :
       \E matched   \in {MatchedVendorColumn(qb_keys, lookup)} :
       \E is_match  \in {IsMatchColumn(matched)} :
       \E qb_df     \in {AssignMatched(quickbooks_df, qb_vendor, is_match, matched)} :
       \E total_rows \in {Len(qb_df.rows)} :
       \E matched_rows \in {Cardinality({i \in 1..Len(qb_df.rows) : is_match[i]})} :
          /\ duplicates' = DuplicatesOf(ref_keys)
          /\ lookup_series' = lookup
          /\ unmatched_df' = UnmatchedOf(qb_df, qb_check, qb_vendor, is_match)
          /\ updated_df' = qb_df
          /\ save_btn' = TRUE
          /\ summary' = [message   |-> "summary_done",
                         total     |-> total_rows,
                         matched   |-> matched_rows,
                         unmatched |-> total_rows - matched_rows,
                         replaced  |-> ReplacedRows(qb_df, qb_vendor, is_match, existing),
                         skipped   |-> Cardinality({i \in 1..Len(qb_keys) :
                                                       qb_keys[i] = EmptyText})]
          /\ status' = "update_complete"
          /\ quickbooks_df' = TargetAfterRun(quickbooks_df, qb_df)
    /\ UNCHANGED <<unmatched_checkbox, backup_checkbox, quickbooks_path,
                   reference_files, language, files,
                   reference_df,
                   qb_check_combo, qb_vendor_combo, ref_check_combo, ref_vendor_combo,
                   normalize_checkbox, extract_checkbox, value, result, pc>>

process_updates ==
    \/ ProcessMissingFiles
    \/ ProcessMissingMapping
    \/ ProcessRefKeyError
    \/ ProcessQbKeyError
    \/ ProcessOk

(***************************************************************************)
(* A direct call of normalize_check_number                                 *)
(***************************************************************************)
NormalizeCall ==
    /\ pc = "call"
    /\ result' = normalize_check_number(value, normalize_checkbox, extract_checkbox)
    /\ pc' = "done"
    /\ UNCHANGED <<unmatched_checkbox, backup_checkbox, quickbooks_path,
                   reference_files, language, files,
                   quickbooks_df, reference_df, updated_df, unmatched_df, duplicates,
                   qb_check_combo, qb_vendor_combo, ref_check_combo, ref_vendor_combo,
                   normalize_checkbox, extract_checkbox, save_btn, status,
                   lookup_series, summary, value>>

(***************************************************************************)
(* Inputs                                                                  *)
(***************************************************************************)
\* Texts of the cells
T101 == <<"1", "0", "1">>

T101p0 == <<"1", "0", "1", ".", "0">>

TSp101 == <<" ", "1", "0", "1">>

TChk101 == <<"C", "h", "k", " ", "1", "0", "1">>

TChk101p0 == <<"C", "h", "k", " ", "1", "0", "1", ".", "0">>

TCheck101 == <<"C", "h", "e", "c", "k", " ", "1", "0", "1">>

TCHK101 == <<"C", "H", "K", "-", "1", "0", "1">>

TAcme == <<"A", "c", "m", "e">>

TSpAcme == <<" ", "A", "c", "m", "e">>

TSpAcmeSp == <<" ", "A", "c", "m", "e", " ">>

TBeta == <<"B", "e", "t", "a">>

TMemo == <<"m">>

\* Texts of the end-to-end scenario
T102 == <<"1", "0", "2">>

T103 == <<"1", "0", "3">>

TAcmeCo == <<"A", "c", "m", "e", " ", "C", "o">>

TBetaLLC == <<"B", "e", "t", "a", " ", "L", "L", "C">>

TAcmeDuplicate == <<"A", "c", "m", "e", " ", "D", "u", "p", "l", "i", "c", "a", "t", "e">>

TOldName == <<"O", "l", "d", " ", "N", "a", "m", "e">>

TX == <<"X">>

TY == <<"Y">>

\* Column names
ColNum == <<"N", "u", "m">>

ColName == <<"N", "a", "m", "e">>

ColSpName == <<" ", "N", "a", "m", "e">>

ColMemo == <<"M", "e", "m", "o">>

ColCheck == <<"C", "h", "e", "c", "k">>

ColPayee == <<"P", "a", "y", "e", "e">>

ColSpPayee == <<" ", "P", "a", "y", "e", "e">>

ColBlank == <<" ">>

\* All tables with the given columns and at most max rows drawn from rows.
TablesOf(columns, rows, max) ==
    {[columns |-> columns, rows |-> r] : r \in UNION {[1..n -> rows] : n \in 0..max}}

\* Reference rows: a key with a decimal suffix, the same key padded, with and
\* without a vendor, and a blank key with a vendor.
RefRows == {<<T101p0, TSpAcmeSp>>, <<TSp101, NaN>>, <<TSp101, TSpAcmeSp>>, <<NaN, TSpAcmeSp>>}

\* Target rows: a plain and a prefixed check number and a blank one; the
\* vendor null, equal to a reference vendor, or padded.
QbRows == {<<T101, TSpAcme, TMemo>>, <<T101, TAcme, TMemo>>, <<TChk101, NaN, TMemo>>,
           <<NaN, TSpAcme, TMemo>>, <<TChk101, TSpAcme, TMemo>>}

\* Tables whose column names need care: a padded name, a blank name.
OddRefTable ==
    [columns |-> <<ColCheck, ColSpPayee, ColBlank>>, rows |-> << <<T101, TAcme, NaN>> >>]

OddQbTable ==
    [columns |-> <<ColNum, ColSpName, ColBlank>>, rows |-> << <<T101, TSpAcme, NaN>> >>]

SmallRefTable ==
    [columns |-> <<ColCheck, ColPayee>>, rows |-> << <<T101, TAcme>> >>]

SmallQbTable ==
    [columns |-> <<ColNum, ColName, ColMemo>>, rows |-> << <<T101, TSpAcme, TMemo>> >>]

\* The end-to-end scenario: a reference file with a repeated key, and a target
\* file with a prefixed check number, a key the reference lacks and a blank
\* check cell (NaN when read from a file, "" when left as text).
ScenarioRefTable ==
    [columns |-> <<ColCheck, ColPayee>>,
     rows    |-> << <<T101, TAcmeCo>>, <<T102, TBetaLLC>>, <<T101, TAcmeDuplicate>> >>]

ScenarioQbTable(blank) ==
    [columns |-> <<ColNum, ColName>>,
     rows    |-> << <<TCheck101, TOldName>>, <<T103, TX>>, <<blank, TY>> >>]

ScenarioQbTables == {ScenarioQbTable(NaN), ScenarioQbTable(EmptyText)}

\* The folder of a session: a target file, a reference file with a repeated
\* key, a file whose vendor header is padded, a file whose first header is
\* blank, and a text file.
QbPath == [stem |-> "qb", suffix |-> ".csv"]

RefPath == [stem |-> "ref", suffix |-> ".csv"]

OddPath == [stem |-> "odd", suffix |-> ".csv"]

BlankPath == [stem |-> "blank", suffix |-> ".csv"]

NotesPath == [stem |-> "notes", suffix |-> ".txt"]

OutPath == [stem |-> "out", suffix |-> ".csv"]

OutTextPath == [stem |-> "out", suffix |-> ".txt"]

Folder ==
    (QbPath :> [columns |-> <<ColNum, ColName>>,
                rows    |-> << <<T101, TBeta>>, <<EmptyText, TAcme>> >>]) @@
    (RefPath :> [columns |-> <<ColCheck, ColPayee>>,
                 rows    |-> << <<T101, TAcme>>, <<T101, TBeta>> >>]) @@
    (OddPath :> [columns |-> <<ColNum, ColSpName>>, rows |-> << <<T101, TAcme>> >>]) @@
    (BlankPath :> [columns |-> <<ColBlank, ColMemo>>, rows |-> << <<T101, TMemo>> >>]) @@
    (NotesPath :> [columns |-> <<>>, rows |-> <<>>])

\* The files the user picks in the two open dialogs and the paths given to
\* the save dialog: a new file, the target file itself, a text file.
TargetChoices == {QbPath, OddPath, NotesPath}

ReferenceChoices == {<<RefPath>>, <<OddPath>>, <<BlankPath>>, <<NotesPath>>}

SaveChoices == {QbPath, OutTextPath}

\* The texts a combo can show for a table: one of its column names, or
\* nothing when no table is loaded.
ComboTexts(df) ==
    IF df = None THEN {EmptyText} ELSE {df.columns[c] : c \in 1..Len(df.columns)}

NoSummary ==
    [message |-> "", total |-> 0, matched |-> 0, unmatched |-> 0, replaced |-> 0, skipped |-> 0]

(***************************************************************************)
(* Files                                                                   *)
(*   a path is [stem, suffix], all files in one folder; the folder is a    *)
(*   function from the paths of the files that exist to their content.     *)
(*   The content of a data file is a table of fields, every field a text:  *)
(*   a null cell is written as the empty field and the empty field is read *)
(*   as a null cell.  Suffixes are in lower case.                          *)
(***************************************************************************)
\* The text of a cleared line edit, and the answer of a cancelled dialog.
NoPath == [stem |-> "", suffix |-> ""]

\* suffix == ".csv" or suffix == ".xlsx" in _read_table and _write_table;
\* any other suffix raises ValueError.
SupportedSuffix(path) == path.suffix \in {".csv", ".xlsx"}

\* pd.read_csv(path, dtype=object) / pd.read_excel(path, dtype=object)
_read_table(content) ==
    [columns |-> content.columns,
     rows    |-> Series([i \in 1..Len(content.rows) |->
                     Series([c \in 1..Len(content.rows[i]) |->
                         IF content.rows[i][c] = EmptyText THEN NaN
                         ELSE content.rows[i][c]])])]

\* df.to_csv(path, index=False) / df.to_excel(path, index=False)
_write_table(df) ==
    [columns |-> df.columns,
     rows    |-> Series([i \in 1..Len(df.rows) |->
                     Series([c \in 1..Len(df.rows[i]) |-> FillNaStr(df.rows[i][c])])])]

\* source_path.with_name(source_path.stem + "_Backup" + source_path.suffix)
BackupPath(path) == [stem |-> path.stem \o "_Backup", suffix |-> path.suffix]

\* Path(path).with_name(Path(path).stem + "_Unmatched" + unmatched_ext)
UnmatchedPath(path) ==
    [stem   |-> path.stem \o "_Unmatched",
     suffix |-> IF path.suffix \in {".csv", ".xlsx"} THEN path.suffix ELSE ".csv"]

(***************************************************************************)
(* Column auto-suggestion                                                  *)
(***************************************************************************)
CHECK_COLUMN_CANDIDATES ==
    <<<<"c", "h", "e", "c", "k", " ", "n", "u", "m", "b", "e", "r">>,
      <<"c", "h", "e", "c", "k", "n", "o">>,
      <<"r", "e", "f", " ", "n", "o">>,
      <<"n", "u", "m">>,
      <<"d", "o", "c", "u", "m", "e", "n", "t", " ", "n", "o">>,
      <<"c", "h", "e", "c", "k", " ", "#">>,
      <<"c", "h", "e", "q", "u", "e", " ", "#">>,
      <<"c", "h", "e", "c", "k">>,
      <<"c", "h", "e", "q", "u", "e">>>>

VENDOR_COLUMN_CANDIDATES ==
    <<<<"v", "e", "n", "d", "o", "r">>,
      <<"p", "a", "y", "e", "e">>,
      <<"n", "a", "m", "e">>,
      <<"v", "e", "n", "d", "o", "r", " ", "n", "a", "m", "e">>>>

\* c.lower().strip()
LowerStrip(name) == Strip(Series([i \in 1..Len(name) |-> Lower(name[i])]))

\* candidate in key
Contains(key, candidate) ==
    \E i \in 1..(Len(key) - Len(candidate) + 1) :
        SubSeq(key, i, i + Len(candidate) - 1) = candidate

\* The loop of _populate_combo over the dict lower, given as the key of each
\* column: a key stands at the place of its first column and bears the name
\* of its last one; the first candidate found in a key selects that name; a
\* combo filled without a selection shows its first item.
SelectedColumn(columns, keys, candidates) ==
    LET firsts == {c \in 1..Len(columns) : \A d \in 1..(c - 1) : keys[d] # keys[c]}
        hits == {h \in (1..Len(candidates)) \X firsts : Contains(keys[h[2]], candidates[h[1]])}
    IN  IF hits = {} THEN columns[1]
        ELSE LET n == MinOf({h[1] : h \in hits})
                 c == MinOf({h[2] : h \in {g \in hits : g[1] = n}})
             IN  columns[MaxOf({d \in 1..Len(columns) : keys[d] = keys[c]})]

\* _populate_combo: the current text of the combo after it.
_populate_combo(columns, candidates) ==
    IF columns = <<>> THEN EmptyText
    ELSE CHOOSE text \in {SelectedColumn(columns, keys, candidates) :
                             keys \in {Series([c \in 1..Len(columns) |-> LowerStrip(columns[c])])}} :
             TRUE

(***************************************************************************)
(* CheckVendorUpdater.load_quickbooks_csv                                  *)
(***************************************************************************)
\* The dialog is cancelled: if not path: return.
LoadQuickbooksCancelled == UNCHANGED vars

\* _read_table raises: nothing is assigned, the error is shown.
LoadQuickbooksFails ==
    /\ \E path \in TargetChoices \cap DOMAIN files : ~SupportedSuffix(path)
    /\ ShowError("read_qb_err")
    /\ UNCHANGED <<quickbooks_df, reference_df, updated_df, unmatched_df, duplicates,
                   qb_check_combo, qb_vendor_combo, ref_check_combo, ref_vendor_combo,
                   normalize_checkbox, extract_checkbox, save_btn, lookup_series,
                   value, result, pc, unmatched_checkbox, backup_checkbox,
                   quickbooks_path, reference_files, language, files>>

\* The file is read: the table, the path and the two target combos are set.
\* The held results and the Save button are not touched.
LoadQuickbooksOk ==
    /\ \E path \in TargetChoices \cap DOMAIN files :
          /\ SupportedSuffix(path)
          /\ \E df \in {_read_table(files[path])} :
                /\ quickbooks_df' = df
                /\ quickbooks_path' = path
                /\ qb_check_combo' = _populate_combo(df.columns, CHECK_COLUMN_CANDIDATES)
                /\ qb_vendor_combo' = _populate_combo(df.columns, VENDOR_COLUMN_CANDIDATES)
    /\ summary' = [summary EXCEPT !.message = "loaded_qb"]
    /\ status' = "qb_loaded_status"
    /\ UNCHANGED <<reference_df, updated_df, unmatched_df, duplicates,
                   ref_check_combo, ref_vendor_combo,
                   normalize_checkbox, extract_checkbox, save_btn, lookup_series,
                   value, result, pc, unmatched_checkbox, backup_checkbox,
                   reference_files, language, files>>

load_quickbooks_csv ==
    \/ LoadQuickbooksCancelled
    \/ LoadQuickbooksFails
    \/ LoadQuickbooksOk

(***************************************************************************)
(* CheckVendorUpdater.load_reference_csv                                   *)
(***************************************************************************)
\* The columns of pd.concat(frames, sort=False): those of the first frame,
\* then the new ones of each later frame.
RECURSIVE ConcatColumns(_)
ConcatColumns(frames) ==
    IF frames = <<>> THEN <<>>
    ELSE LET before == ConcatColumns(SubSeq(frames, 1, Len(frames) - 1))
         IN  before \o SelectSeq(frames[Len(frames)].columns,
                                 LAMBDA name : \A c \in 1..Len(before) : before[c] # name)

\* The rows of pd.concat(frames, ignore_index=True): the rows of every frame
\* in turn, NaN in the columns a frame lacks.
RECURSIVE ConcatRows(_, _)
ConcatRows(frames, columns) ==
    IF frames = <<>> THEN <<>>
    ELSE LET df == frames[Len(frames)]
         IN  ConcatRows(SubSeq(frames, 1, Len(frames) - 1), columns) \o
             Series([i \in 1..Len(df.rows) |->
                 Series([c \in 1..Len(columns) |->
                     IF HasColumn(df, columns[c])
                     THEN df.rows[i][ColumnPos(df, columns[c])]
                     ELSE NaN])])

\* pd.concat(frames, ignore_index=True, sort=False)
Concat(frames) ==
    [columns |-> ConcatColumns(frames), rows |-> ConcatRows(frames, ConcatColumns(frames))]

\* The files of the selection that _read_table reads, in order.
ReadablePaths(paths) == SelectSeq(paths, SupportedSuffix)

\* The dialog is cancelled or nothing is selected.
LoadReferenceCancelled == UNCHANGED vars

\* No selected file could be read: if not frames.
LoadReferenceFails ==
    /\ \E paths \in ReferenceChoices :
          /\ \A n \in 1..Len(paths) : paths[n] \in DOMAIN files
          /\ ReadablePaths(paths) = <<>>
    /\ ShowError("read_ref_err")
    /\ UNCHANGED <<quickbooks_df, reference_df, updated_df, unmatched_df, duplicates,
                   qb_check_combo, qb_vendor_combo, ref_check_combo, ref_vendor_combo,
                   normalize_checkbox, extract_checkbox, save_btn, lookup_series,
                   value, result, pc, unmatched_checkbox, backup_checkbox,
                   quickbooks_path, reference_files, language, files>>

\* The frames that could be read are concatenated; the files that could not
\* are listed in the summary.  The held results and the Save button are not
\* touched.
LoadReferenceOk ==
    /\ \E paths \in ReferenceChoices :
          /\ \A n \in 1..Len(paths) : paths[n] \in DOMAIN files
          /\ \E read \in {ReadablePaths(paths)} :
                /\ read # <<>>
                /\ \E df \in {Concat(Series([n \in 1..Len(read) |-> _read_table(files[read[n]])]))} :
                      /\ reference_df' = df
                      /\ reference_files' = paths
                      /\ ref_check_combo' = _populate_combo(df.columns, CHECK_COLUMN_CANDIDATES)
                      /\ ref_vendor_combo' = _populate_combo(df.columns, VENDOR_COLUMN_CANDIDATES)
                      /\ summary' = [summary EXCEPT !.message =
                                        IF Len(read) < Len(paths) THEN "error_title"
                                        ELSE "loaded_ref"]
    /\ status' = "ref_loaded_status"
    /\ UNCHANGED <<quickbooks_df, updated_df, unmatched_df, duplicates,
                   qb_check_combo, qb_vendor_combo,
                   normalize_checkbox, extract_checkbox, save_btn, lookup_series,
                   value, result, pc, unmatched_checkbox, backup_checkbox,
                   quickbooks_path, language, files>>

load_reference_csv ==
    \/ LoadReferenceCancelled
    \/ LoadReferenceFails
    \/ LoadReferenceOk

(***************************************************************************)
(* CheckVendorUpdater.save_updated_csv                                     *)
(***************************************************************************)
\* if self.updated_df is None
SaveNothing ==
    /\ updated_df = None
    /\ ShowError("no_updated")
    /\ UNCHANGED <<quickbooks_df, reference_df, updated_df, unmatched_df, duplicates,
                   qb_check_combo, qb_vendor_combo, ref_check_combo, ref_vendor_combo,
                   normalize_checkbox, extract_checkbox, save_btn, lookup_series,
                   value, result, pc, unmatched_checkbox, backup_checkbox,
                   quickbooks_path, reference_files, language, files>>

\* The save dialog is cancelled: if not path: return.
SaveCancelled ==
    /\ updated_df # None
    /\ UNCHANGED vars

\* The folder after the backup step: the file at quickbooks_path, as it is on
\* disk now, is copied to its "_Backup" sibling.
AfterBackup ==
    IF backup_checkbox /\ quickbooks_path # NoPath /\ quickbooks_path \in DOMAIN files
    THEN (BackupPath(quickbooks_path) :> files[quickbooks_path]) @@ files
    ELSE files

\* The folder after the updated table is written to path.
AfterWrite(disk, path) == (path :> _write_table(updated_df)) @@ disk

\* The folder after the unmatched step.
AfterUnmatched(disk, path) ==
    IF unmatched_checkbox /\ unmatched_df # None /\ unmatched_df.rows # <<>>
    THEN (UnmatchedPath(path) :> _write_table(unmatched_df)) @@ disk
    ELSE disk

\* _write_table raises on the suffix of the chosen path, after the backup.
SaveFails ==
    /\ updated_df # None
    /\ \E path \in SaveChoices :
          /\ ~SupportedSuffix(path)
          /\ files' = AfterBackup
    /\ ShowError("save_err")
    /\ UNCHANGED <<quickbooks_df, reference_df, updated_df, unmatched_df, duplicates,
                   qb_check_combo, qb_vendor_combo, ref_check_combo, ref_vendor_combo,
                   normalize_checkbox, extract_checkbox, save_btn, lookup_series,
                   value, result, pc, unmatched_checkbox, backup_checkbox,
                   quickbooks_path, reference_files, language>>

\* Backup, then the updated table, then the unmatched table.
SaveOk ==
    /\ updated_df # None
    /\ \E path \in SaveChoices :
          /\ SupportedSuffix(path)
          /\ files' = AfterUnmatched(AfterWrite(AfterBackup, path), path)
    /\ summary' = [summary EXCEPT !.message = "saved_file"]
    /\ status' = "files_saved"
    /\ UNCHANGED <<quickbooks_df, reference_df, updated_df, unmatched_df, duplicates,
                   qb_check_combo, qb_vendor_combo, ref_check_combo, ref_vendor_combo,
                   normalize_checkbox, extract_checkbox, save_btn, lookup_series,
                   value, result, pc, unmatched_checkbox, backup_checkbox,
                   quickbooks_path, reference_files, language>>

save_updated_csv ==
    \/ SaveNothing
    \/ SaveCancelled
    \/ SaveFails
    \/ SaveOk

(***************************************************************************)
(* CheckVendorUpdater.reset_app, the option checkboxes, the language combo *)
(***************************************************************************)
\* reset_app without line 578: the unmatched table is kept.
reset_app_keeps_unmatched ==
    /\ quickbooks_df' = None
    /\ reference_df' = None
    /\ reference_files' = <<>>
    /\ updated_df' = None
    /\ duplicates' = <<>>
    /\ quickbooks_path' = NoPath
    /\ qb_check_combo' = EmptyText
    /\ qb_vendor_combo' = EmptyText
    /\ ref_check_combo' = EmptyText
    /\ ref_vendor_combo' = EmptyText
    /\ summary' = NoSummary
    /\ save_btn' = FALSE
    /\ status' = "ready"
    /\ lookup_series' = <<>>
    /\ UNCHANGED <<unmatched_df, normalize_checkbox, extract_checkbox, unmatched_checkbox,
                   backup_checkbox, language, files, value, result, pc>>

\* reset_app that also ticks the two saving options again, as __init__ does.
reset_app_restores_options ==
    /\ quickbooks_df' = None
    /\ reference_df' = None
    /\ reference_files' = <<>>
    /\ updated_df' = None
    /\ unmatched_df' = None
    /\ duplicates' = <<>>
    /\ quickbooks_path' = NoPath
    /\ qb_check_combo' = EmptyText
    /\ qb_vendor_combo' = EmptyText
    /\ ref_check_combo' = EmptyText
    /\ ref_vendor_combo' = EmptyText
    /\ summary' = NoSummary
    /\ save_btn' = FALSE
    /\ status' = "ready"
    /\ lookup_series' = <<>>
    /\ unmatched_checkbox' = TRUE
    /\ backup_checkbox' = TRUE
    /\ UNCHANGED <<normalize_checkbox, extract_checkbox, language, files, value, result, pc>>

reset_app ==
    /\ quickbooks_df' = None
    /\ reference_df' = None
    /\ reference_files' = <<>>
    /\ updated_df' = None
    /\ unmatched_df' = None
    /\ duplicates' = <<>>
    /\ quickbooks_path' = NoPath
    /\ qb_check_combo' = EmptyText
    /\ qb_vendor_combo' = EmptyText
    /\ ref_check_combo' = EmptyText
    /\ ref_vendor_combo' = EmptyText
    /\ summary' = NoSummary
    /\ save_btn' = FALSE
    /\ status' = "ready"
    /\ lookup_series' = <<>>
    /\ UNCHANGED <<normalize_checkbox, extract_checkbox, unmatched_checkbox, backup_checkbox,
                   language, files, value, result, pc>>

\* The user ticks or clears one of the two saving options.  (The two matching
\* options are drawn by Init of Spec; in a session they stay as constructed.)
ToggleOption ==
    /\ \/ unmatched_checkbox' = ~unmatched_checkbox /\ UNCHANGED backup_checkbox
       \/ backup_checkbox' = ~backup_checkbox /\ UNCHANGED unmatched_checkbox
    /\ UNCHANGED <<quickbooks_df, reference_df, updated_df, unmatched_df, duplicates,
                   qb_check_combo, qb_vendor_combo, ref_check_combo, ref_vendor_combo,
                   normalize_checkbox, extract_checkbox,
                   save_btn, status, lookup_series, summary, value, result, pc,
                   quickbooks_path, reference_files, language, files>>

\* _on_language_changed: the language is set and _apply_texts shows Ready.
LanguageChanged ==
    /\ language' \in {"en", "es"} \ {language}
    /\ status' = "ready"
    /\ UNCHANGED <<quickbooks_df, reference_df, updated_df, unmatched_df, duplicates,
                   qb_check_combo, qb_vendor_combo, ref_check_combo, ref_vendor_combo,
                   normalize_checkbox, extract_checkbox, save_btn, lookup_series, summary,
                   value, result, pc, unmatched_checkbox, backup_checkbox,
                   quickbooks_path, reference_files, files>>

\* A folder from which the two tables were loaded.
LoadedFrom(qb_df, ref_df) ==
    [path \in (IF qb_df = None THEN {} ELSE {QbPath}) \cup
               (IF ref_df = None THEN {} ELSE {RefPath}) |->
        IF path = QbPath THEN _write_table(qb_df) ELSE _write_table(ref_df)]

\* What a session holds before its first run.
NoRunYet ==
    /\ updated_df = None
    /\ unmatched_df = None
    /\ duplicates = <<>>
    /\ lookup_series = <<>>
    /\ save_btn = FALSE
    /\ summary = NoSummary
    /\ status = IF reference_df # None THEN "ref_loaded_status"
                ELSE IF quickbooks_df # None THEN "qb_loaded_status"
                ELSE "ready"
    /\ value = NaN
    /\ result = NaN
    /\ pc = "idle"
    /\ unmatched_checkbox = TRUE
    /\ backup_checkbox = TRUE
    /\ language = "en"
    /\ quickbooks_path = (IF quickbooks_df = None THEN NoPath ELSE QbPath)
    /\ reference_files = (IF reference_df = None THEN <<>> ELSE <<RefPath>>)
    /\ files = LoadedFrom(quickbooks_df, reference_df)

\* Both files loaded, the combos on the check and vendor columns.
InitLoaded ==
    /\ quickbooks_df \in TablesOf(<<ColNum, ColName, ColMemo>>, QbRows, MaxQbRows)
    /\ reference_df \in TablesOf(<<ColCheck, ColPayee>>, RefRows, MaxRefRows)
    /\ qb_check_combo = ColNum
    /\ qb_vendor_combo = ColName
    /\ ref_check_combo = ColCheck
    /\ ref_vendor_combo = ColPayee

\* Any file loaded or missing, the combos on any column.
InitAnyMapping ==
    /\ quickbooks_df \in {None, SmallQbTable, OddQbTable}
    /\ reference_df \in {None, SmallRefTable, OddRefTable}
    /\ qb_check_combo \in ComboTexts(quickbooks_df)
    /\ qb_vendor_combo \in ComboTexts(quickbooks_df)
    /\ ref_check_combo \in ComboTexts(reference_df)
    /\ ref_vendor_combo \in ComboTexts(reference_df)

\* The scenario files loaded, the combos on the check and vendor columns.
InitScenario ==
    /\ quickbooks_df \in ScenarioQbTables
    /\ reference_df = ScenarioRefTable
    /\ qb_check_combo = ColNum
    /\ qb_vendor_combo = ColName
    /\ ref_check_combo = ColCheck
    /\ ref_vendor_combo = ColPayee

\* A session in which the files have been chosen and the options set, before
\* the Process button is pressed.
Init ==
    /\ InitLoaded \/ InitAnyMapping \/ InitScenario
    /\ normalize_checkbox \in BOOLEAN
    /\ extract_checkbox \in BOOLEAN
    /\ NoRunYet

Next == process_updates

Spec == Init /\ [][Next]_vars

\* The main window as __init__ and _build_ui leave it, in the language chosen
\* at login, next to the folder.
InitSession ==
    /\ quickbooks_df = None
    /\ reference_df = None
    /\ reference_files = <<>>
    /\ updated_df = None
    /\ unmatched_df = None
    /\ duplicates = <<>>
    /\ lookup_series = <<>>
    /\ language \in {"en", "es"}
    /\ quickbooks_path = NoPath
    /\ qb_check_combo = EmptyText
    /\ qb_vendor_combo = EmptyText
    /\ ref_check_combo = EmptyText
    /\ ref_vendor_combo = EmptyText
    /\ normalize_checkbox = TRUE
    /\ extract_checkbox = TRUE
    /\ unmatched_checkbox = TRUE
    /\ backup_checkbox = TRUE
    /\ save_btn = FALSE
    /\ summary = NoSummary
    /\ status = "ready"
    /\ files = Folder
    /\ value = NaN
    /\ result = NaN
    /\ pc = "idle"

NextSession ==
    \/ load_quickbooks_csv
    \/ load_reference_csv
    \/ process_updates
    \/ save_updated_csv
    \/ reset_app
    \/ ToggleOption
    \/ LanguageChanged

SpecSession == InitSession /\ [][NextSession]_vars

\* The characters the enumerated arguments of normalize_check_number are made of.
Alphabet == {" ", "0", "1", ".", "C", "h", "k", "-"}

ExampleTexts == {T101p0, TCheck101, TCHK101, TChk101, TChk101p0, TSpAcmeSp}

InitNorm ==
    /\ value \in {NaN} \cup ExampleTexts \cup UNION {[1..n -> Alphabet] : n \in 0..MaxLen}
    /\ normalize_checkbox \in BOOLEAN
    /\ extract_checkbox \in BOOLEAN
    /\ result = NaN
    /\ pc = "call"
    /\ quickbooks_df = None
    /\ reference_df = None
    /\ updated_df = None
    /\ unmatched_df = None
    /\ duplicates = <<>>
    /\ lookup_series = <<>>
    /\ qb_check_combo = EmptyText
    /\ qb_vendor_combo = EmptyText
    /\ ref_check_combo = EmptyText
    /\ ref_vendor_combo = EmptyText
    /\ save_btn = FALSE
    /\ summary = NoSummary
    /\ status = "ready"
    /\ unmatched_checkbox = TRUE
    /\ backup_checkbox = TRUE
    /\ language = "en"
    /\ quickbooks_path = NoPath
    /\ reference_files = <<>>
    /\ files = <<>>

NextNorm == NormalizeCall

SpecNorm == InitNorm /\ [][NextNorm]_vars

(***************************************************************************)
(* Properties of normalize_check_number, checked under SpecNorm            *)
(***************************************************************************)
\* The contiguous pieces of a text.
Subtexts(v) == {SubSeq(v, a, b) : a \in 1..(Len(v) + 1), b \in 0..Len(v)}

\* t is v without its surrounding whitespace: only whitespace was cut off at
\* either end, and t neither starts nor ends with whitespace.
IsTrimOf(t, v) ==
    \E a \in 1..(Len(v) + 1), b \in 0..Len(v) :
        /\ t = SubSeq(v, a, b)
        /\ \A j \in 1..(a - 1) : v[j] \in Spaces
        /\ \A j \in (b + 1)..Len(v) : v[j] \in Spaces
        /\ t = EmptyText \/ (t[1] \notin Spaces /\ t[Len(t)] \notin Spaces)

TrimOf(v) == CHOOSE t \in Subtexts(v) : IsTrimOf(t, v)

Returned == pc = "done"

\* C9: normalize returns "" for a null value and for a value whose trimmed
\* text is empty, under every flag combination; with normalizeMode false it
\* returns the trimmed text of a non-null value verbatim, whatever extractMode is.
C9_NullBlankAndExactMode ==
    Returned =>
        /\ value = NaN => result = EmptyText
        /\ (value # NaN /\ IsTrimOf(EmptyText, value)) => result = EmptyText
        /\ (value # NaN /\ ~normalize_checkbox) => IsTrimOf(result, value)

\* C9 witness: exact-match mode has returned the trimmed text of a padded value.
C9_Witness ==
    /\ Returned
    /\ ~normalize_checkbox
    /\ value = TSpAcmeSp
    /\ result = TAcme

\* The cleaned text: trimmed, one trailing ".0" removed, trimmed again.
CleanedTextOf(v) ==
    LET t == TrimOf(v)
    IN  IF Len(t) >= 2 /\ t[Len(t) - 1] = "." /\ t[Len(t)] = "0"
        THEN TrimOf(SubSeq(t, 1, Len(t) - 2))
        ELSE t

SameLetter(a, b) ==
    a = b \/ \E i \in 1..26 : {a, b} = {UpperCase[i], LowerCase[i]}

\* The positions q at which the digits start when the whole of c reads
\* <check|cheque|chk><zero or more of - : #><digits>, ignoring case.
AnchoredDigitStarts(c) ==
    {q \in 1..Len(c) :
        /\ \A j \in q..Len(c) : c[j] \in Digits
        /\ \E n \in 1..Len(CHECK_TEXT_PREFIXES) :
              LET word == CHECK_TEXT_PREFIXES[n]
              IN  /\ Len(word) < q
                  /\ \A k \in 1..Len(word) : SameLetter(c[k], word[k])
                  /\ \A j \in (Len(word) + 1)..(q - 1) : c[j] \in Separators}

\* The first maximal run of digits of c (c has a digit).
FirstDigitRunOf(c) ==
    CHOOSE t \in Subtexts(c) :
        \E a \in 1..Len(c), b \in 1..Len(c) :
            /\ a <= b
            /\ t = SubSeq(c, a, b)
            /\ \A j \in 1..(a - 1) : c[j] \notin Digits
            /\ \A j \in a..b : c[j] \in Digits
            /\ b = Len(c) \/ c[b + 1] \notin Digits

ExtractedOf(c) ==
    IF AnchoredDigitStarts(c) # {}
    THEN SubSeq(c, CHOOSE q \in AnchoredDigitStarts(c) : TRUE, Len(c))
    ELSE IF \E j \in 1..Len(c) : c[j] \in Digits THEN FirstDigitRunOf(c)
    ELSE c

\* C10: with normalizeMode true, normalize returns the cleaned text when
\* extractMode is false; when extractMode is true it returns the digits of the
\* anchored pattern if the whole cleaned text matches it, otherwise the first
\* maximal digit run of the cleaned text, otherwise the cleaned text; and the
\* four examples of the specification come out as stated.
C10_NormalizeMode ==
    (Returned /\ normalize_checkbox /\ value # NaN /\ ~IsTrimOf(EmptyText, value)) =>
        /\ ~extract_checkbox => result = CleanedTextOf(value)
        /\ extract_checkbox => result = ExtractedOf(CleanedTextOf(value))
        /\ (value = T101p0 /\ ~extract_checkbox) => result = T101
        /\ (value = TCheck101 /\ extract_checkbox) => result = T101
        /\ (value = TCHK101 /\ extract_checkbox) => result = T101
        /\ (value = TCheck101 /\ ~extract_checkbox) => result = TCheck101

\* C10 witness: extract mode has returned the digits of a prefixed value whose
\* cleaned text lost a trailing ".0".
C10_Witness ==
    /\ Returned
    /\ normalize_checkbox
    /\ extract_checkbox
    /\ value = TChk101p0
    /\ result = T101

\* A key that is already clean: a non-empty text of digits only.
IsCleanKey(k) ==
    /\ k # NaN
    /\ k # EmptyText
    /\ \A i \in 1..Len(k) : k[i] \in Digits

\* C15: under every flag combination normalize returns an already-cleaned
\* numeric key unchanged; hence normalizing the result of a call again, with
\* the same flags, returns it unchanged whenever that result is such a key.
C15_CleanKeyIsFixedPoint ==
    Returned =>
        /\ IsCleanKey(value) => result = value
        /\ IsCleanKey(result) =>
              normalize_check_number(result, normalize_checkbox, extract_checkbox) = result

\* A clean key ending in "0" went through normalize and extract mode.
C15_Witness ==
    /\ Returned
    /\ normalize_checkbox
    /\ extract_checkbox
    /\ value = <<"1", "0">>
    /\ result = <<"1", "0">>

\* C20: with normalize mode and extract mode both on, the anchored prefix
\* pattern never changes the outcome: normalize returns the first maximal
\* digit run of the cleaned text when that text has a digit, and the cleaned
\* text otherwise.  Hence a key produced in extract mode is digits only or has
\* no digit, and normalizing it again returns it unchanged.
C20_PrefixPatternIsRedundant ==
    (Returned /\ normalize_checkbox /\ extract_checkbox) =>
        /\ (value # NaN /\ ~IsTrimOf(EmptyText, value)) =>
              \E c \in {CleanedTextOf(value)} :
                 result = IF \E j \in 1..Len(c) : c[j] \in Digits
                          THEN FirstDigitRunOf(c)
                          ELSE c
        /\ \/ \A i \in 1..Len(result) : result[i] \in Digits
           \/ \A i \in 1..Len(result) : result[i] \notin Digits
        /\ normalize_check_number(result, TRUE, TRUE) = result

\* The prefix pattern matched the whole of "CHK-101" and captured its first
\* digit run.
C20_Witness ==
    /\ Returned
    /\ normalize_checkbox
    /\ extract_checkbox
    /\ value = TCHK101
    /\ PrefixMatch(Cleaned(Strip(value))) = T101
    /\ result = T101

(***************************************************************************)
(* Properties of a run, checked under Spec                                 *)
(***************************************************************************)
\* The run has completed; the tables, the mapping and the options are those
\* it read.
RunDone == status = "update_complete"

RefCheckPos == ColumnPos(reference_df, Strip(ref_check_combo))

RefVendorPos == ColumnPos(reference_df, Strip(ref_vendor_combo))

QbCheckPos == ColumnPos(quickbooks_df, Strip(qb_check_combo))

QbVendorPos == ColumnPos(quickbooks_df, Strip(qb_vendor_combo))

KeyOf(cell) == normalize_check_number(cell, normalize_checkbox, extract_checkbox)

\* The normalized keys of the reference rows and of the target rows.
RefKeyRow == Series([i \in 1..Len(reference_df.rows) |-> KeyOf(reference_df.rows[i][RefCheckPos])])

QbKeyRow == Series([i \in 1..Len(quickbooks_df.rows) |-> KeyOf(quickbooks_df.rows[i][QbCheckPos])])

\* The text of a cell, null read as "".
TextOf(cell) == IF cell = NaN THEN EmptyText ELSE cell

RECURSIVE SumOf(_, _)
\* The sum of f over the finite set S.
SumOf(f, S) ==
    IF S = {} THEN 0
    ELSE LET k == CHOOSE x \in S : TRUE IN f[k] + SumOf(f, S \ {k})

\* C1: the lookup index has exactly one entry for each distinct non-empty key
\* of the reference rows; rows with key "" add nothing to the index or to the
\* duplicate report; the value of an entry is the trimmed vendor text (null
\* as "") of the first reference row bearing the key.
C1_IndexFirstOccurrenceWins ==
    RunDone =>
        \E keys \in {RefKeyRow} :
            /\ DOMAIN lookup_series = {keys[i] : i \in 1..Len(keys)} \ {EmptyText}
            /\ EmptyText \notin DOMAIN duplicates
            /\ \A i \in 1..Len(keys) :
                  (keys[i] # EmptyText /\ \A j \in 1..(i - 1) : keys[j] # keys[i]) =>
                      IsTrimOf(lookup_series[keys[i]],
                               TextOf(reference_df.rows[i][RefVendorPos]))

\* C1 witness: a run over a reference table in which a later row repeats the
\* key of an earlier row with another vendor, and a row has a blank key.
C1_Witness ==
    /\ RunDone
    /\ Len(reference_df.rows) = 2
    /\ \E keys \in {RefKeyRow} :
          /\ keys[1] = keys[2]
          /\ keys[1] # EmptyText
          /\ lookup_series[keys[1]] = TAcme
    /\ reference_df.rows[1][RefVendorPos] = TSpAcmeSp
    /\ reference_df.rows[2][RefVendorPos] = NaN

\* C2: in the updated table the vendor cell of a target row is the index
\* value of the row's key when the key is in the index (also when that value
\* is ""), and the row's original vendor cell otherwise.
C2_VendorCellFromIndex ==
    RunDone =>
        \E keys \in {QbKeyRow} :
            /\ Len(updated_df.rows) = Len(quickbooks_df.rows)
            /\ \A i \in 1..Len(keys) :
                  updated_df.rows[i][QbVendorPos] =
                      IF keys[i] \in DOMAIN lookup_series
                      THEN lookup_series[keys[i]]
                      ELSE quickbooks_df.rows[i][QbVendorPos]

\* C2 witness: a matched row whose vendor text was overwritten by an empty
\* looked-up value.
C2_Witness ==
    /\ RunDone
    /\ \E keys \in {QbKeyRow} :
          \E i \in 1..Len(keys) :
              /\ keys[i] \in DOMAIN lookup_series
              /\ lookup_series[keys[i]] = EmptyText
              /\ quickbooks_df.rows[i][QbVendorPos] = TAcme
              /\ updated_df.rows[i][QbVendorPos] = EmptyText

\* C3: the updated table has the rows and the columns of the target table, in
\* the same order, and every cell but the vendor cell of a matched row is the
\* target table's cell.
C3_OnlyMatchedVendorCellsChange ==
    RunDone =>
        \E keys \in {QbKeyRow} :
            /\ updated_df.columns = quickbooks_df.columns
            /\ Len(updated_df.rows) = Len(quickbooks_df.rows)
            /\ \A i \in 1..Len(keys) :
                  /\ Len(updated_df.rows[i]) = Len(quickbooks_df.rows[i])
                  /\ \A c \in 1..Len(quickbooks_df.columns) :
                        (c # QbVendorPos \/ keys[i] \notin DOMAIN lookup_series) =>
                            updated_df.rows[i][c] = quickbooks_df.rows[i][c]

\* C3 witness: a run over two target rows, the first matched and rewritten,
\* the second unmatched with a vendor text of its own.
C3_Witness ==
    /\ RunDone
    /\ Len(quickbooks_df.rows) = 2
    /\ \E keys \in {QbKeyRow} :
          /\ keys[1] \in DOMAIN lookup_series
          /\ keys[2] \notin DOMAIN lookup_series
    /\ updated_df.rows[1][QbVendorPos] # quickbooks_df.rows[1][QbVendorPos]
    /\ quickbooks_df.rows[2][QbVendorPos] = TSpAcme

\* C4: the unmatched table holds exactly the target rows that did not match,
\* in target order, projected to the check column and the vendor column, the
\* vendor cell being the original one.
C4_UnmatchedTable ==
    RunDone =>
        \E keys \in {QbKeyRow} :
        \E missed \in {{i \in 1..Len(keys) : keys[i] \notin DOMAIN lookup_series}} :
            /\ unmatched_df.columns = <<Strip(qb_check_combo), Strip(qb_vendor_combo)>>
            /\ Len(unmatched_df.rows) = Cardinality(missed)
            /\ \A i \in missed :
                  unmatched_df.rows[Cardinality({j \in missed : j <= i})] =
                      <<quickbooks_df.rows[i][QbCheckPos], quickbooks_df.rows[i][QbVendorPos]>>

\* C4 witness: two different target rows that found nothing in a non-empty
\* index.
C4_Witness ==
    /\ RunDone
    /\ Len(unmatched_df.rows) = 2
    /\ unmatched_df.rows[1] = <<TChk101, NaN>>
    /\ unmatched_df.rows[2] = <<NaN, TSpAcme>>
    /\ lookup_series # <<>>

\* C5: every target row is matched or unmatched and not both: matched +
\* unmatched = total rows of the target table, and replaced <= matched.
C5_CountersAddUp ==
    RunDone =>
        \E keys \in {QbKeyRow} :
            /\ summary.total = Len(quickbooks_df.rows)
            /\ summary.matched = Cardinality({i \in 1..Len(keys) : keys[i] \in DOMAIN lookup_series})
            /\ summary.unmatched = Len(unmatched_df.rows)
            /\ summary.matched + summary.unmatched = summary.total
            /\ summary.replaced <= summary.matched

\* C5 witness: a run with a matched row, an unmatched row and no replacement.
C5_Witness ==
    /\ RunDone
    /\ summary.matched = 1
    /\ summary.unmatched = 1
    /\ summary.replaced = 0
    /\ \E i \in 1..Len(quickbooks_df.rows) : quickbooks_df.rows[i][QbVendorPos] = TSpAcme

\* C6: a target row whose key is "" is never matched; the skipped rows are the
\* rows with empty key and are among the unmatched rows, so skipped <=
\* unmatched, also when reference rows have blank keys.
C6_EmptyKeyNeverMatches ==
    RunDone =>
        \E keys \in {QbKeyRow} :
        \E blank \in {{i \in 1..Len(keys) : keys[i] = EmptyText}} :
            /\ \A i \in blank :
                  /\ updated_df.rows[i] = quickbooks_df.rows[i]
                  /\ \E n \in 1..Len(unmatched_df.rows) :
                        unmatched_df.rows[n] = <<quickbooks_df.rows[i][QbCheckPos],
                                                 quickbooks_df.rows[i][QbVendorPos]>>
            /\ summary.skipped = Cardinality(blank)
            /\ summary.skipped <= summary.unmatched
            /\ summary.matched <= Len(keys) - Cardinality(blank)

\* C6 witness: a target row with a blank key met a reference row with a blank
\* key and a vendor, and another target row matched.
C6_Witness ==
    /\ RunDone
    /\ summary.skipped = 1
    /\ summary.matched = 1
    /\ \E i \in 1..Len(reference_df.rows) :
          /\ RefKeyRow[i] = EmptyText
          /\ reference_df.rows[i][RefVendorPos] = TSpAcmeSp

\* C7 as stated: replaced counts the matched rows whose looked-up value differs
\* from the TRIMMED text of the original vendor cell.
C7_ReplacedAgainstTrimmedPrior ==
    RunDone =>
        \E keys \in {QbKeyRow} :
            summary.replaced =
                Cardinality({i \in 1..Len(keys) :
                    /\ keys[i] \in DOMAIN lookup_series
                    /\ lookup_series[keys[i]] # TrimOf(TextOf(quickbooks_df.rows[i][QbVendorPos]))})

\* C7 amended: replaced counts the matched rows whose looked-up value differs
\* from the text of the original vendor cell as stored (null as "", not
\* trimmed); a cell that differs from the looked-up value only by surrounding
\* whitespace counts as replaced.
C7_ReplacedAgainstStoredPrior ==
    RunDone =>
        \E keys \in {QbKeyRow} :
            summary.replaced =
                Cardinality({i \in 1..Len(keys) :
                    /\ keys[i] \in DOMAIN lookup_series
                    /\ lookup_series[keys[i]] # TextOf(quickbooks_df.rows[i][QbVendorPos])})

\* C7 witness: a matched row whose original vendor cell is the looked-up value
\* with a leading blank was counted as replaced, next to a null cell that
\* met an empty looked-up value or an equal one that was not.
C7_Witness ==
    /\ RunDone
    /\ Len(quickbooks_df.rows) = 2
    /\ summary.matched = 2
    /\ summary.replaced = 1
    /\ quickbooks_df.rows[1][QbVendorPos] = TSpAcme
    /\ updated_df.rows[1][QbVendorPos] = TAcme
    /\ updated_df.rows[2][QbVendorPos] = TextOf(quickbooks_df.rows[2][QbVendorPos])

\* C8: the duplicate report holds exactly the non-empty keys borne by more
\* than one reference row, each with the number of all the rows bearing it;
\* so every count is > 1 and the counts sum to at most the number of rows.
C8_DuplicateReport ==
    RunDone =>
        \E keys \in {RefKeyRow} :
            /\ DOMAIN duplicates =
                  {k \in {keys[i] : i \in 1..Len(keys)} \ {EmptyText} :
                      Cardinality({i \in 1..Len(keys) : keys[i] = k}) > 1}
            /\ \A k \in DOMAIN duplicates :
                  /\ duplicates[k] = Cardinality({i \in 1..Len(keys) : keys[i] = k})
                  /\ duplicates[k] > 1
            /\ SumOf(duplicates, DOMAIN duplicates) <= Len(reference_df.rows)

\* C8 witness: a run over a reference table with a key borne by two rows.
C8_Witness ==
    /\ RunDone
    /\ \E k \in DOMAIN duplicates : duplicates[k] = 2
    /\ Len(reference_df.rows) = 2

\* C11: with normalize mode and extract mode on, the reference rows
\* ("101","Acme Co"), ("102","Beta LLC"), ("101","Acme Duplicate") give the
\* index {"101": "Acme Co", "102": "Beta LLC"} and the duplicate report
\* {"101": 2}; the target rows ("Check 101","Old Name"), ("103","X"), ("","Y")
\* give the updated rows ("Check 101","Acme Co"), ("103","X"), ("","Y"), the
\* unmatched rows ("103","X"), ("","Y") and the counters total 3, matched 1,
\* unmatched 2, replaced 1, skipped 1.
C11_EndToEndScenario ==
    (/\ RunDone
     /\ reference_df = ScenarioRefTable
     /\ quickbooks_df \in ScenarioQbTables
     /\ normalize_checkbox /\ extract_checkbox)
    => \E blank \in {quickbooks_df.rows[3][1]} :
          /\ lookup_series = (T101 :> TAcmeCo) @@ (T102 :> TBetaLLC)
          /\ duplicates = (T101 :> 2)
          /\ updated_df = [columns |-> <<ColNum, ColName>>,
                           rows    |-> << <<TCheck101, TAcmeCo>>, <<T103, TX>>, <<blank, TY>> >>]
          /\ unmatched_df = [columns |-> <<ColNum, ColName>>,
                             rows    |-> << <<T103, TX>>, <<blank, TY>> >>]
          /\ summary = [message |-> "summary_done", total |-> 3, matched |-> 1,
                        unmatched |-> 2, replaced |-> 1, skipped |-> 1]

C11_Witness ==
    /\ RunDone
    /\ reference_df = ScenarioRefTable
    /\ quickbooks_df = ScenarioQbTable(NaN)
    /\ normalize_checkbox /\ extract_checkbox
    /\ summary.matched = 1
    /\ updated_df.rows[1][2] = TAcmeCo

\* C13: a run never changes the loaded target or reference table, and
\* running again with the same loaded tables, mapping and flags yields the
\* same updated table, unmatched table, duplicate report and counters.
C13_RunIsPureAndRepeatable ==
    [][process_updates =>
          /\ UNCHANGED <<quickbooks_df, reference_df>>
          /\ (RunDone /\ ProcessOk) =>
                UNCHANGED <<updated_df, unmatched_df, duplicates, lookup_series, summary>>]_vars

\* A run has rewritten a vendor cell in its result and the loaded target
\* still has the original.
C13_Witness ==
    /\ RunDone
    /\ summary.replaced >= 1
    /\ updated_df # quickbooks_df
    /\ \E i \in 1..Len(quickbooks_df.rows) :
          updated_df.rows[i][QbVendorPos] # quickbooks_df.rows[i][QbVendorPos]

\* The column name that _required_mapping hands to the run for a combo is a
\* column of the table.
MappedColumnExists(df, combo) ==
    /\ df # None
    /\ Strip(combo) # EmptyText
    /\ \E c \in 1..Len(df.columns) : df.columns[c] = Strip(combo)

\* C14: when both tables are loaded and the four mapped columns exist in
\* their tables, a run completes with a result and never ends in the error
\* outcome, whatever the cells hold (null or blank check values, text without
\* digits, duplicate reference keys, null vendor values, no matching row).
C14_RunCompletes ==
    [][(/\ process_updates
        /\ MappedColumnExists(quickbooks_df, qb_check_combo)
        /\ MappedColumnExists(quickbooks_df, qb_vendor_combo)
        /\ MappedColumnExists(reference_df, ref_check_combo)
        /\ MappedColumnExists(reference_df, ref_vendor_combo))
       => /\ status' = "update_complete"
          /\ updated_df' # None
          /\ unmatched_df' # None
          /\ save_btn']_vars

\* A completed run over a target with a null check cell and a reference with
\* a repeated key and a null vendor: one row skipped, one row unmatched, the
\* repeated key reported.
C14_Witness ==
    /\ RunDone
    /\ \E i \in 1..Len(quickbooks_df.rows) : quickbooks_df.rows[i][QbCheckPos] = NaN
    /\ \E i \in 1..Len(reference_df.rows) : reference_df.rows[i][RefVendorPos] = NaN
    /\ duplicates # <<>>
    /\ summary.skipped >= 1
    /\ summary.unmatched >= 1

(***************************************************************************)
(* Properties of a session, checked under SpecSession                      *)
(***************************************************************************)
\* A step of process_updates that ends in the error outcome.
FailedRun ==
    \/ ProcessMissingFiles
    \/ ProcessMissingMapping
    \/ ProcessRefKeyError
    \/ ProcessQbKeyError

\* C12: a run that fails on a precondition (a table not loaded, a blank
\* mapping, a mapped column that is not in its table) has no side effects: the
\* held updated table, unmatched table, duplicate report and the Save button
\* are what they were before the run.
C12_FailedRunHasNoSideEffects ==
    [][FailedRun => UNCHANGED <<updated_df, unmatched_df, duplicates, save_btn>>]_vars

\* The file at path was written or rewritten by the step.
Written(path) ==
    /\ path \in DOMAIN files'
    /\ path \notin DOMAIN files \/ files'[path] # files[path]

\* C16: a save with the backup option on and an existing source file copies
\* the target file to its "_Backup" sibling before the updated table is
\* written, and after every save (also one over the source file, also one
\* repeated after that) the backup holds what the target file held when it
\* was loaded.  The "_Unmatched" sibling is written only when the unmatched
\* option is on and the unmatched table has rows, and the held updated and
\* unmatched tables reach the writer unchanged.
C16_BackupKeepsLoadedTarget ==
    [][SaveOk =>
          /\ (backup_checkbox /\ quickbooks_path \in DOMAIN files) =>
                /\ files'[BackupPath(quickbooks_path)] = files[quickbooks_path]
                /\ _read_table(files'[BackupPath(quickbooks_path)]) = quickbooks_df
          /\ \A path \in SaveChoices :
                Written(UnmatchedPath(path)) =>
                   /\ unmatched_checkbox
                   /\ unmatched_df.rows # <<>>
                   /\ files'[UnmatchedPath(path)] = _write_table(unmatched_df)
          /\ \E path \in SaveChoices : files'[path] = _write_table(updated_df)
          /\ UNCHANGED <<updated_df, unmatched_df>>]_vars

\* The held results are those of reconciling the loaded target against the
\* loaded reference, with the mapping shown and some setting of the two
\* matching options.
HeldResultsAreCurrent ==
    /\ MappingComplete
    /\ RefColumnsFound
    /\ QbColumnsFound
    /\ \E normalize_mode \in BOOLEAN, extract_from_text_mode \in BOOLEAN :
       \E ref_keys \in {CheckKeyColumn(reference_df, RefCheckPos,
                                       normalize_mode, extract_from_text_mode)} :
       \E lookup \in {LookupSeries(ref_keys, VendorValueColumn(reference_df, RefVendorPos))} :
       \E qb_keys \in {CheckKeyColumn(quickbooks_df, QbCheckPos,
                                      normalize_mode, extract_from_text_mode)} :
       \E matched \in {MatchedVendorColumn(qb_keys, lookup)} :
       \E is_match \in {IsMatchColumn(matched)} :
       \E qb_df \in {AssignMatched(quickbooks_df, QbVendorPos, is_match, matched)} :
          /\ updated_df = qb_df
          /\ unmatched_df = UnmatchedOf(qb_df, QbCheckPos, QbVendorPos, is_match)
          /\ duplicates = DuplicatesOf(ref_keys)

\* C17: after any sequence of loads, runs, saves and resets, whenever an
\* updated table is held and Save is enabled, the held updated table,
\* unmatched table and duplicate report are the result of reconciling the
\* target now loaded against the reference now loaded, so a save never writes
\* a result computed from a table that a later load has replaced.
C17_HeldResultsAreCurrent ==
    (updated_df # None /\ save_btn) => HeldResultsAreCurrent

\* C18: in every state of a session the Save button is enabled exactly when an
\* updated table is held, and an updated table is held exactly when an
\* unmatched table is held.
C18_SaveEnabledIffResultsHeld ==
    /\ save_btn <=> (updated_df # None)
    /\ (updated_df # None) <=> (unmatched_df # None)

\* Results are held, a later target was loaded from odd.csv and an operation
\* has since failed: both tables are still held and Save is still enabled.
C18_Witness ==
    /\ updated_df # None
    /\ unmatched_df # None
    /\ save_btn
    /\ quickbooks_path = OddPath
    /\ status = "error_title"

\* The session holds nothing, as reset_app leaves it.
Cleared ==
    /\ quickbooks_df = None
    /\ reference_df = None
    /\ reference_files = <<>>
    /\ updated_df = None
    /\ unmatched_df = None
    /\ duplicates = <<>>
    /\ qb_check_combo = EmptyText
    /\ qb_vendor_combo = EmptyText
    /\ ref_check_combo = EmptyText
    /\ ref_vendor_combo = EmptyText
    /\ ~save_btn

\* C19: from every state of a session, reset leaves no target table, no
\* reference table, an empty reference file list, no updated table, no
\* unmatched table, an empty duplicate report, empty column mappings, Save
\* disabled and the status Ready, and leaves the four option flags and the
\* language unchanged; a run requested in the state reset leaves fails with
\* the missing-files error and a save reports that there is nothing to save.
C19_ResetClearsSession ==
    [][/\ reset_app =>
            /\ Cleared'
            /\ status' = "ready"
            /\ UNCHANGED <<normalize_checkbox, extract_checkbox,
                           unmatched_checkbox, backup_checkbox, language>>
       /\ (Cleared /\ process_updates) =>
            /\ summary'.message = "missing_files"
            /\ status' = "error_title"
            /\ Cleared'
       /\ (Cleared /\ save_updated_csv) =>
            /\ summary'.message = "no_updated"
            /\ status' = "error_title"
            /\ Cleared'
            /\ UNCHANGED files]_vars

\* The session was reset after a save wrote to the folder, with the backup
\* option cleared and the language set to Spanish.
C19_Witness ==
    /\ Cleared
    /\ status = "ready"
    /\ summary = NoSummary
    /\ files # Folder
    /\ ~backup_checkbox
    /\ language = "es"

====
